---- MODULE Spec2Model ----
(***************************************************************************)
(* Model of fileLogger.go: a log writer that rotates its backing file by   *)
(* size or by calendar day.  The file system is modelled with inodes so    *)
(* that a handle keeps designating its file across a rename.               *)
(***************************************************************************)
EXTENDS Integers, Sequences, FiniteSets, TLC

\* ---- bounds of the model ------------------------------------------------
MaxFileCount == 3      \* largest fileCount (maxBackupCount) tried
MaxFileSize == 2       \* largest fileSize threshold tried, in lines
MaxDay == 2            \* calendar days are 0..MaxDay
MaxWrites == 3         \* total number of lines the writers issue
NumWriters == 2        \* concurrent callers of the write API
MaxFaults == 1         \* faults the environment raises (failed renames, panics)

\* ---- program constants --------------------------------------------------
SplitType_Size == 0
SplitType_Daily == 1

Nil == 0               \* nil *os.File / nil *log.Logger / absent directory entry
NoDate == -1           \* nil *time.Time
RenameErrLine == -2    \* the line "FileLogger rename error: ..."
PanicLine == -3        \* the line "FileLogger catch panic in fileCheck: ..."

Writers == 1..NumWriters
Days == 0..MaxDay

\* ---- file names ---------------------------------------------------------
\* joinFilePath(f.fileDir, f.fileName)
logFilePath == [k |-> "log", n |-> 0]
\* logFile + "." + strconv.Itoa(i)
BakBySize(i) == [k |-> "num", n |-> i]
\* logFile + "." + date.Format(DATEFORMAT)
BakByDate(d) == [k |-> "date", n |-> d]

VARIABLES
  splitType, fileCount, fileSize,   \* configuration fields of FileLogger
  suffix, date,                     \* f.suffix, f.date
  logFile,                          \* f.logFile: read at lines 194/210, written at line 221
  logfile,                          \* f.logfile: written at lines 131/154/204
  lg,                               \* f.lg: the handle the *log.Logger writes to
  mu,                               \* f.mu: "free" or "W" (write-locked)
  dir,                              \* directory: file name -> inode, Nil when absent
  files,                            \* inode -> sequence of lines
  handles,                          \* handle -> [ino, open]
  today,                            \* calendar day of time.Now()
  pc,                               \* position of the constructor, then of fileMonitor
  wref,                             \* per writer: the logger reference it fetched, Nil when idle
  written,                          \* history: lines in the order their appends were made
  rotations,                        \* history: number of rotations performed
  faults                            \* history: number of faults the environment raised

vars == <<splitType, fileCount, fileSize, suffix, date, logFile, logfile, lg, mu,
          dir, files, handles, today, pc, wref, written, rotations, faults>>

\* The part of the state split() and the constructors read and write.
St == [suffix |-> suffix, date |-> date, logFile |-> logFile, logfile |-> logfile,
       lg |-> lg, dir |-> dir, files |-> files, handles |-> handles, panicked |-> FALSE]

\* ---- operating system primitives ---------------------------------------
isExist(s, name) == s.dir[name] # Nil

\* size of a file in lines; a missing file has size zero
fileSizeOf(s, name) == IF s.dir[name] = Nil THEN 0 ELSE Len(s.files[s.dir[name]])

\* (*os.File).Close on a non-nil handle
Close(s, h) == [s EXCEPT !.handles[h].open = FALSE]

\* os.Remove
Remove(s, name) == [s EXCEPT !.dir[name] = Nil]

\* os.Rename succeeds iff the source exists and no I/O fault strikes
RenameOk(s, from, fault) == s.dir[from] # Nil /\ ~fault

RenameNoop(s, from, to, fault) == s

Rename(s, from, to, fault) ==
  IF RenameOk(s, from, fault)
  THEN [s EXCEPT !.dir[to] = s.dir[from], !.dir[from] = Nil]
  ELSE s

\* the inode a new handle on `name` designates, creating the file when absent
InodeFor(s, name) == IF s.dir[name] = Nil THEN Len(s.files) + 1 ELSE s.dir[name]

\* os.OpenFile(name, O_RDWR|O_APPEND|O_CREATE): keeps the content
OpenAppend(s, name) ==
  LET ino == InodeFor(s, name) IN
  [s EXCEPT !.dir[name] = ino,
            !.files = IF s.dir[name] = Nil THEN Append(s.files, <<>>) ELSE s.files,
            !.handles = Append(s.handles, [ino |-> ino, open |-> TRUE])]

\* os.Create(name) = O_RDWR|O_CREATE|O_TRUNC: empties an existing file
Create(s, name) ==
  LET ino == InodeFor(s, name) IN
  [s EXCEPT !.dir[name] = ino,
            !.files = IF s.dir[name] = Nil THEN Append(s.files, <<>>)
                      ELSE [s.files EXCEPT ![ino] = <<>>],
            !.handles = Append(s.handles, [ino |-> ino, open |-> TRUE])]

\* the handle returned by the last OpenAppend/Create
LastHandle(s) == Len(s.handles)

\* (*log.Logger).Printf through handle h: appends when the handle is open,
\* fails (and the error is dropped) when it is closed
Printf(s, h, line) ==
  IF s.handles[h].open
  THEN [s EXCEPT !.files[s.handles[h].ino] = Append(@, line)]
  ELSE s

\* ---- rotation policy -----------------------------------------------------
isMustSplitOffByOne(s, now) ==
  IF splitType = SplitType_Size
  THEN fileCount > 1 /\ fileSizeOf(s, logFilePath) + 1 >= fileSize
  ELSE now > s.date

isMustSplitAnyCount(s, now) ==
  IF splitType = SplitType_Size
  THEN fileCount >= 1 /\ fileSizeOf(s, logFilePath) >= fileSize
  ELSE now > s.date

isMustSplit(s, now) ==
  IF splitType = SplitType_Size
  THEN fileCount > 1 /\ fileSizeOf(s, logFilePath) >= fileSize
  ELSE now > s.date

\* ---- rotation ------------------------------------------------------------
splitSizeSkipIndex(s, fault) ==
  LET s1  == [s EXCEPT !.suffix = ((s.suffix + 1) % fileCount) + 1]
      s2  == IF s1.logFile # Nil THEN Close(s1, s1.logFile) ELSE s1
      bak == BakBySize(s1.suffix)
      s3  == IF isExist(s2, bak) THEN Remove(s2, bak) ELSE s2
      s4  == Rename(s3, logFilePath, bak, fault)
      s5  == Create(s4, logFilePath)
  IN [s5 EXCEPT !.logfile = LastHandle(s5), !.lg = LastHandle(s5)]

splitSizeStaleWriter(s, fault) ==
  LET s1  == [s EXCEPT !.suffix = (s.suffix % fileCount) + 1]
      s2  == IF s1.logFile # Nil THEN Close(s1, s1.logFile) ELSE s1
      bak == BakBySize(s1.suffix)
      s3  == IF isExist(s2, bak) THEN Remove(s2, bak) ELSE s2
      s4  == Rename(s3, logFilePath, bak, fault)
      s5  == Create(s4, logFilePath)
  IN [s5 EXCEPT !.logfile = LastHandle(s5)]

splitSizeWrongCount(s, fault) ==
  LET s1  == [s EXCEPT !.suffix = (s.suffix % MaxFileCount) + 1]
      s2  == IF s1.logFile # Nil THEN Close(s1, s1.logFile) ELSE s1
      bak == BakBySize(s1.suffix)
      s3  == IF isExist(s2, bak) THEN Remove(s2, bak) ELSE s2
      s4  == Rename(s3, logFilePath, bak, fault)
      s5  == Create(s4, logFilePath)
  IN [s5 EXCEPT !.logfile = LastHandle(s5), !.lg = LastHandle(s5)]

splitSize(s, fault) ==
  LET s1  == [s EXCEPT !.suffix = (s.suffix % fileCount) + 1]
      s2  == IF s1.logFile # Nil THEN Close(s1, s1.logFile) ELSE s1
      bak == BakBySize(s1.suffix)
      s3  == IF isExist(s2, bak) THEN Remove(s2, bak) ELSE s2
      s4  == Rename(s3, logFilePath, bak, fault)
      s5  == Create(s4, logFilePath)
  IN [s5 EXCEPT !.logfile = LastHandle(s5), !.lg = LastHandle(s5)]

splitDailyNamedToday(s, now, fault) ==
  LET bak == BakByDate(now) IN
  IF ~isExist(s, bak) /\ isMustSplit(s, now)
  THEN LET s1 == IF s.logFile # Nil THEN Close(s, s.logFile) ELSE s
           ok == RenameOk(s1, logFilePath, fault)
           s2 == Rename(s1, logFilePath, bak, fault)
       IN IF ~ok /\ s2.lg = Nil
          THEN [s2 EXCEPT !.panicked = TRUE]
          ELSE LET s3 == IF ok THEN s2 ELSE Printf(s2, s2.lg, RenameErrLine)
                   s4 == [s3 EXCEPT !.date = now]
                   s5 == Create(s4, logFilePath)
               IN [s5 EXCEPT !.logFile = LastHandle(s5), !.lg = LastHandle(s5)]
  ELSE s

splitDailyNoRecheck(s, now, fault) ==
  LET bak == BakByDate(s.date) IN
  IF ~isExist(s, bak)
  THEN LET s1 == IF s.logFile # Nil THEN Close(s, s.logFile) ELSE s
           ok == RenameOk(s1, logFilePath, fault)
           s2 == Rename(s1, logFilePath, bak, fault)
       IN IF ~ok /\ s2.lg = Nil
          THEN [s2 EXCEPT !.panicked = TRUE]
          ELSE LET s3 == IF ok THEN s2 ELSE Printf(s2, s2.lg, RenameErrLine)
                   s4 == [s3 EXCEPT !.date = now]
                   s5 == Create(s4, logFilePath)
               IN [s5 EXCEPT !.logFile = LastHandle(s5), !.lg = LastHandle(s5)]
  ELSE s

splitDailyNoExistCheck(s, now, fault) ==
  LET bak == BakByDate(s.date) IN
  IF isMustSplit(s, now)
  THEN LET s1 == IF s.logFile # Nil THEN Close(s, s.logFile) ELSE s
           ok == RenameOk(s1, logFilePath, fault)
           s2 == Rename(s1, logFilePath, bak, fault)
       IN IF ~ok /\ s2.lg = Nil
          THEN [s2 EXCEPT !.panicked = TRUE]
          ELSE LET s3 == IF ok THEN s2 ELSE Printf(s2, s2.lg, RenameErrLine)
                   s4 == [s3 EXCEPT !.date = now]
                   s5 == Create(s4, logFilePath)
               IN [s5 EXCEPT !.logFile = LastHandle(s5), !.lg = LastHandle(s5)]
  ELSE s

splitDailyDateAhead(s, now, fault) ==
  LET bak == BakByDate(s.date) IN
  IF ~isExist(s, bak) /\ isMustSplit(s, now)
  THEN LET s1 == IF s.logFile # Nil THEN Close(s, s.logFile) ELSE s
           ok == RenameOk(s1, logFilePath, fault)
           s2 == Rename(s1, logFilePath, bak, fault)
       IN IF ~ok /\ s2.lg = Nil
          THEN [s2 EXCEPT !.panicked = TRUE]
          ELSE LET s3 == IF ok THEN s2 ELSE Printf(s2, s2.lg, RenameErrLine)
                   s4 == [s3 EXCEPT !.date = now + 1]
                   s5 == Create(s4, logFilePath)
               IN [s5 EXCEPT !.logFile = LastHandle(s5), !.lg = LastHandle(s5)]
  ELSE s

splitDaily(s, now, fault) ==
  LET bak == BakByDate(s.date) IN
  IF ~isExist(s, bak) /\ isMustSplit(s, now)
  THEN LET s1 == IF s.logFile # Nil THEN Close(s, s.logFile) ELSE s
           ok == RenameOk(s1, logFilePath, fault)
           s2 == Rename(s1, logFilePath, bak, fault)
       IN IF ~ok /\ s2.lg = Nil
          THEN [s2 EXCEPT !.panicked = TRUE]      \* f.lg.Printf on a nil logger
          ELSE LET s3 == IF ok THEN s2 ELSE Printf(s2, s2.lg, RenameErrLine)
                   s4 == [s3 EXCEPT !.date = now]
                   s5 == Create(s4, logFilePath)
               IN [s5 EXCEPT !.logFile = LastHandle(s5), !.lg = LastHandle(s5)]
  ELSE s

split(s, now, fault) ==
  IF splitType = SplitType_Size THEN splitSize(s, fault) ELSE splitDaily(s, now, fault)

\* a call of split performed a rotation iff it opened a new handle
Rotated(s, r) == Len(r.handles) > Len(s.handles)

\* ---- construction --------------------------------------------------------
\* lines 119-125: the loop body ends in an unconditional break, so only i = 1 is tried
scanSuffix(s) ==
  IF 1 <= fileCount /\ isExist(s, BakBySize(1)) THEN 1 ELSE s.suffix

openOrSplitTruncating(s, now) ==
  IF ~isMustSplit(s, now)
  THEN LET s1 == Create(s, logFilePath)
       IN [s1 EXCEPT !.logfile = LastHandle(s1), !.lg = LastHandle(s1)]
  ELSE split(s, now, FALSE)

\* lines 127-135 and 150-158
openOrSplit(s, now) ==
  IF ~isMustSplit(s, now)
  THEN LET s1 == OpenAppend(s, logFilePath)
       IN [s1 EXCEPT !.logfile = LastHandle(s1), !.lg = LastHandle(s1)]
  ELSE split(s, now, FALSE)

\* ---- initial states -------------------------------------------------------
\* Every file name has an inode reserved for the file that may exist before the
\* writer is constructed; the directory says which of them do exist.
InitIno(name) ==
  IF name.k = "log" THEN 1
  ELSE IF name.k = "num" THEN 1 + name.n
  ELSE 2 + MaxFileCount + name.n

Names == {logFilePath} \cup {BakBySize(i) : i \in 1..MaxFileCount}
                      \cup {BakByDate(d) : d \in Days}

PreLine == <<0>>       \* the content of a backup that exists before construction

RECURSIVE PreLines(_)
PreLines(k) == IF k = 0 THEN <<>> ELSE PreLines(k - 1) \o PreLine

\* dated: which dated backups the directory may hold: "none"; "past", those of
\* days before construction, which earlier runs of the writer leave behind;
\* "any", also those of the day of construction and of later days.
\* numbered: the directory may hold numbered backups from an earlier run.
InitFrom(dated, numbered) ==
  /\ splitType \in {SplitType_Size, SplitType_Daily}
  /\ IF splitType = SplitType_Size
     THEN fileCount \in 1..MaxFileCount /\ fileSize \in 1..MaxFileSize
     ELSE fileCount = 0 /\ fileSize = 0          \* NewDailyLogger leaves them zero
  /\ today \in (IF splitType = SplitType_Size \/ dated = "none" THEN {0} ELSE 0..1)
  /\ \E present \in SUBSET Names, k \in 0..MaxFileSize :
       /\ \A nm \in present :
            \/ nm.k = "log"
            \/ nm.k = "num" /\ splitType = SplitType_Size /\ nm.n <= fileCount /\ numbered
            \/ nm.k = "date" /\ splitType = SplitType_Daily /\ (dated = "any" \/ (dated = "past" /\ nm.n < today))
       /\ (logFilePath \notin present => k = 0)
       /\ dir = [nm \in Names |-> IF nm \in present THEN InitIno(nm) ELSE Nil]
       /\ files = [i \in 1..(2 + MaxFileCount + MaxDay) |->
                     IF i = 1 THEN PreLines(k)
                     ELSE IF \E nm \in present : InitIno(nm) = i THEN PreLine ELSE <<>>]
  /\ handles = <<>>
  /\ suffix = 0 /\ date = NoDate
  /\ logFile = Nil /\ logfile = Nil /\ lg = Nil
  /\ mu = "free"
  /\ pc = "new"
  /\ wref = [w \in Writers |-> Nil]
  /\ written = <<>>
  /\ rotations = 0
  /\ faults = 0

Init == InitFrom("past", TRUE)

InitNoBackups == InitFrom("none", FALSE)

InitAnyDir == InitFrom("any", FALSE)

\* ---- actions --------------------------------------------------------------
Install(r) ==
  /\ suffix' = r.suffix /\ date' = r.date
  /\ logFile' = r.logFile /\ logfile' = r.logfile /\ lg' = r.lg
  /\ dir' = r.dir /\ files' = r.files /\ handles' = r.handles

Config == <<splitType, fileCount, fileSize>>
OS == <<dir, files, handles>>
Fields == <<suffix, date, logFile, logfile, lg>>
Callers == <<wref, written>>

\* initLoggerByDaily, lines 143-145: f.date = today, before the lock is taken
InitDate ==
  /\ pc = "new" /\ splitType = SplitType_Daily
  /\ date' = today
  /\ pc' = "dated"
  /\ UNCHANGED <<Config, suffix, logFile, logfile, lg, mu, OS, today, Callers, rotations, faults>>

\* f.mu.Lock() of the constructors, lines 115 and 146
InitLock ==
  /\ \/ pc = "new" /\ splitType = SplitType_Size
     \/ pc = "dated"
  /\ mu = "free"
  /\ mu' = "W"
  /\ pc' = IF splitType = SplitType_Size THEN "scan" ELSE "body"
  /\ UNCHANGED <<Config, Fields, OS, today, Callers, rotations, faults>>

\* initLoggerBySize, lines 118-125
InitScan ==
  /\ pc = "scan"
  /\ suffix' = scanSuffix(St)
  /\ pc' = "body"
  /\ UNCHANGED <<Config, date, logFile, logfile, lg, mu, OS, today, Callers, rotations, faults>>

\* lines 127-135 and 150-158; a panic unwinds through the deferred Unlock
InitBody ==
  /\ pc = "body"
  /\ LET r == openOrSplit(St, today) IN
       /\ Install(r)
       /\ rotations' = IF isMustSplit(St, today) /\ Rotated(St, r)
                        THEN rotations + 1 ELSE rotations
       /\ pc' = IF r.panicked THEN "crashed" ELSE "initUnlock"
       /\ mu' = IF r.panicked THEN "free" ELSE mu
  /\ UNCHANGED <<Config, today, Callers, faults>>

\* go f.fileMonitor() and the deferred f.mu.Unlock(): the constructor returns
InitUnlock ==
  /\ pc = "initUnlock"
  /\ mu' = "free"
  /\ pc' = "idle"
  /\ UNCHANGED <<Config, Fields, OS, today, Callers, rotations, faults>>

Constructed == pc \in {"idle", "skip", "due", "split", "unlock", "recover"}

\* fileCheck, line 250: the policy is evaluated on a timer tick, lock not held
FileCheckEval ==
  /\ pc = "idle"
  /\ pc' = IF isMustSplit(St, today) THEN "due" ELSE "skip"
  /\ UNCHANGED <<Config, Fields, mu, OS, today, Callers, rotations, faults>>

\* fileCheck returns without rotating when the policy does not hold
FileCheckSkip ==
  /\ pc = "skip"
  /\ pc' = "idle"
  /\ UNCHANGED <<Config, Fields, mu, OS, today, Callers, rotations, faults>>

\* fileCheck, line 251
FileCheckLock ==
  /\ pc = "due"
  /\ mu = "free"
  /\ mu' = "W"
  /\ pc' = "split"
  /\ UNCHANGED <<Config, Fields, OS, today, Callers, rotations, faults>>

\* fileCheck, line 254
FileCheckSplit ==
  /\ pc = "split"
  /\ LET r == split(St, today, FALSE) IN
       /\ Install(r)
       /\ rotations' = IF Rotated(St, r) THEN rotations + 1 ELSE rotations
  /\ pc' = "unlock"
  /\ UNCHANGED <<Config, mu, today, Callers, faults>>

\* fileCheck, line 254, with os.Rename failing inside split
FileCheckSplitRenameFails ==
  /\ pc = "split"
  /\ LET r == split(St, today, TRUE) IN
       /\ Install(r)
       /\ rotations' = IF Rotated(St, r) THEN rotations + 1 ELSE rotations
  /\ pc' = "unlock"
  /\ faults < MaxFaults
  /\ faults' = faults + 1
  /\ UNCHANGED <<Config, mu, today, Callers>>

\* a run-time panic inside fileCheck, while the policy is evaluated (line 250)
\* or when split is entered (line 254): the deferred Unlock of line 252 runs
\* first when it was registered, then the deferred function of lines 244-248
FileCheckPanic ==
  /\ pc \in {"idle", "split"}
  /\ faults < MaxFaults
  /\ faults' = faults + 1
  /\ mu' = "free"
  /\ pc' = "recover"
  /\ UNCHANGED <<Config, Fields, OS, today, Callers, rotations>>

recoverRethrows(s) == [s EXCEPT !.panicked = TRUE]

\* lines 244-248: recover(), then f.lg.Printf of the message
recoverHandler(s) ==
  IF s.lg = Nil THEN [s EXCEPT !.panicked = TRUE] ELSE Printf(s, s.lg, PanicLine)

\* the deferred function of fileCheck; a panic inside it ends the monitor
FileCheckRecover ==
  /\ pc = "recover"
  /\ LET r == recoverHandler(St) IN
       /\ Install(r)
       /\ pc' = IF r.panicked THEN "dead" ELSE "idle"
  /\ UNCHANGED <<Config, mu, today, Callers, rotations, faults>>

FileCheckReturnsLocked ==
  /\ pc = "unlock"
  /\ pc' = "idle"
  /\ UNCHANGED <<Config, Fields, mu, OS, today, Callers, rotations, faults>>

\* fileCheck, deferred f.mu.Unlock() of line 252
FileCheckUnlock ==
  /\ pc = "unlock"
  /\ mu' = "free"
  /\ pc' = "idle"
  /\ UNCHANGED <<Config, Fields, OS, today, Callers, rotations, faults>>

\* midnight passes; only Daily mode reads the clock
ClockTick ==
  /\ splitType = SplitType_Daily
  /\ pc # "crashed"
  /\ today < MaxDay
  /\ today' = today + 1
  /\ UNCHANGED <<Config, Fields, mu, OS, pc, Callers, rotations, faults>>

InFlight == Cardinality({w \in Writers : wref[w] # Nil})

\* write API, first half: under the read lock, fetch the current line-writer
WriteFetch(w) ==
  /\ Constructed
  /\ wref[w] = Nil
  /\ mu = "free"
  /\ Len(written) + InFlight < MaxWrites
  /\ wref' = [wref EXCEPT ![w] = lg]
  /\ UNCHANGED <<Config, Fields, mu, OS, today, pc, written, rotations, faults>>

\* write API, second half: the fetched line-writer appends the line
WriteAppend(w) ==
  /\ wref[w] # Nil
  /\ LET r == Printf(St, wref[w], Len(written) + 1) IN
       /\ files' = r.files
  /\ written' = Append(written, Len(written) + 1)
  /\ wref' = [wref EXCEPT ![w] = Nil]
  /\ UNCHANGED <<Config, Fields, mu, dir, handles, today, pc, rotations, faults>>

Next ==
  \/ InitDate
  \/ InitLock
  \/ InitScan
  \/ InitBody
  \/ InitUnlock
  \/ FileCheckEval
  \/ FileCheckSkip
  \/ FileCheckLock
  \/ FileCheckSplit
  \/ FileCheckUnlock
  \/ ClockTick
  \/ \E w \in Writers : WriteFetch(w)
  \/ \E w \in Writers : WriteAppend(w)

Spec == Init /\ [][Next]_vars

\* the same program with the faults of its environment: a failing os.Rename
\* and run-time panics inside fileCheck
NextFault ==
  \/ Next
  \/ FileCheckSplitRenameFails
  \/ FileCheckPanic
  \/ FileCheckRecover

SpecFault == InitNoBackups /\ [][NextFault]_vars

\* the program over a directory that may hold any dated backups
SpecAnyDir == InitAnyDir /\ [][Next]_vars

\* ---- vocabulary of the properties ----------------------------------------
OpenHandles == {h \in 1..Len(handles) : handles[h].open}

ActiveSize == IF dir[logFilePath] = Nil THEN 0 ELSE Len(files[dir[logFilePath]])

ActiveContent == IF dir[logFilePath] = Nil THEN <<>> ELSE files[dir[logFilePath]]

IsWritten(x) == x >= 1

\* the lines of a file that this writer's callers wrote, in file order
NewLines(content) == SelectSeq(content, IsWritten)

Occurrences(content, x) == Cardinality({j \in 1..Len(content) : content[j] = x})

\* the backups this writer has produced: names bound to another inode than the
\* one the name had before construction
ProducedBackups == {nm \in Names \ {logFilePath} : dir[nm] # Nil /\ dir[nm] # InitIno(nm)}

\* the rotation policy as the specification words it
PolicyDue ==
  IF splitType = SplitType_Size
  THEN fileCount > 1 /\ ActiveSize >= fileSize
  ELSE today > date

HighestBackup ==
  LET found == {i \in 1..fileCount : dir[BakBySize(i)] # Nil} IN
  IF found = {} THEN 0 ELSE CHOOSE i \in found : \A j \in found : j <= i

\* ---- C1 -------------------------------------------------------------------
\* C1: while exactly one rotation has taken place, every line whose write was
\* made is found exactly once in the backup that rotation produced together
\* with the new active file, and these files hold no other written line.
C1_NoLineLostAcrossOneRotation ==
  (Constructed /\ rotations = 1) =>
    /\ Cardinality(ProducedBackups) = 1
    /\ \A nm \in ProducedBackups :
         LET all == files[dir[nm]] \o ActiveContent IN
         /\ \A i \in 1..Len(written) : Occurrences(all, written[i]) = 1
         /\ Len(NewLines(all)) = Len(written)

\* a writer that fetched the line-writer before the rotation appended after it:
\* the last line is in the backup while an earlier one is in the new active file
C1_Witness ==
  /\ Constructed /\ rotations = 1 /\ Len(written) = 3
  /\ \E nm \in ProducedBackups :
       /\ Occurrences(files[dir[nm]], 3) = 1
       /\ Occurrences(files[dir[nm]], 1) = 1
  /\ Occurrences(ActiveContent, 2) = 1

\* ---- C2 -------------------------------------------------------------------
\* C2: in Size mode every rotation sets the backup index to
\* (index % fileCount) + 1, and the backup at the new index is then the file
\* that was active just before, with the content it had.
C2_BackupIndexCycles ==
  [][(splitType = SplitType_Size /\ rotations' = rotations + 1) =>
        /\ suffix' = (suffix % fileCount) + 1
        /\ dir[logFilePath] # Nil
        /\ dir'[BakBySize(suffix')] = dir[logFilePath]
        /\ files'[dir'[BakBySize(suffix')]] = files[dir[logFilePath]]]_vars

\* fileCount = 3 from index 0: the fourth rotation wrapped to index 1 and
\* replaced the backup the first rotation had put there
C2_Witness ==
  /\ splitType = SplitType_Size /\ fileCount = 3 /\ rotations = 4 /\ suffix = 1
  /\ dir[BakBySize(1)] # Nil /\ files[dir[BakBySize(1)]] = <<3>>
  /\ dir[BakBySize(2)] # Nil /\ files[dir[BakBySize(2)]] = <<1>>
  /\ dir[BakBySize(3)] # Nil /\ files[dir[BakBySize(3)]] = <<2>>

\* ---- C3 -------------------------------------------------------------------
\* C3: in Daily mode a check made on the day after currentPeriodStart decides
\* to rotate, and its rotation produces the backup named with the previous
\* currentPeriodStart holding the old content, sets currentPeriodStart to the
\* current day and leaves the active file empty; it is one rotation.
C3_MidnightRotatesOnce ==
  [][(splitType = SplitType_Daily /\ today = date + 1) =>
        /\ (pc = "idle" /\ pc' # "idle" => pc' = "due")
        /\ (pc = "split" /\ pc' = "unlock" =>
              /\ rotations' = rotations + 1
              /\ dir[logFilePath] # Nil
              /\ dir'[BakByDate(date)] = dir[logFilePath]
              /\ files'[dir'[BakByDate(date)]] = files[dir[logFilePath]]
              /\ date' = today
              /\ dir'[logFilePath] # Nil /\ dir'[logFilePath] # dir[logFilePath]
              /\ files'[dir'[logFilePath]] = <<>>)]_vars

\* the monitor has rotated on day 1 a file opened on day 0 that held a line
C3_Witness ==
  /\ splitType = SplitType_Daily /\ pc = "unlock" /\ rotations = 1
  /\ date = 1 /\ today = 1
  /\ dir[BakByDate(0)] # Nil /\ Occurrences(files[dir[BakByDate(0)]], 1) = 1
  /\ ActiveContent = <<>>

\* ---- C4 -------------------------------------------------------------------
\* C4: after the Size-mode constructor has scanned the directory, the backup
\* index is the highest index in 1..fileCount that has a backup file, and 0
\* when there is none.
C4_ResumesAtHighestBackup ==
  (splitType = SplitType_Size /\ pc = "body") => suffix = HighestBackup

\* ---- C5 -------------------------------------------------------------------
\* C5: in Daily mode, on the day of a completed rotation the policy no longer
\* holds and invoking the rotation again returns the state it was given:
\* period start, handles, files and backups are all unchanged.
C5_SecondRotationSameDayIsNoop ==
  (splitType = SplitType_Daily /\ Constructed /\ rotations >= 1 /\ date = today) =>
    /\ ~PolicyDue
    /\ split(St, today, FALSE) = St

C5_Witness ==
  /\ splitType = SplitType_Daily /\ pc = "skip" /\ rotations = 1 /\ date = today
  /\ written # <<>>

\* ---- C6 -------------------------------------------------------------------
\* C6: in Size mode with fileCount = 1 no step performs a rotation, changes
\* the backup index once construction has scanned it, or creates, removes or
\* replaces a backup file.
C6_NoRotationWithOneBackup ==
  [][(splitType = SplitType_Size /\ fileCount = 1) =>
        /\ rotations' = 0
        /\ (pc \notin {"new", "scan"} => suffix' = suffix)
        /\ \A i \in 1..MaxFileCount :
             /\ dir'[BakBySize(i)] = dir[BakBySize(i)]
             /\ files'[InitIno(BakBySize(i))] = files[InitIno(BakBySize(i))]]_vars

\* an oversized active file has been checked by the monitor and kept
C6_Witness ==
  /\ splitType = SplitType_Size /\ fileCount = 1 /\ pc = "skip"
  /\ ActiveSize > fileSize /\ Len(written) = MaxWrites

\* ---- C7 -------------------------------------------------------------------
\* C7: in Size mode a step taken while the active file is below fileSize is
\* no rotation, and as long as no rotation was made the lines written are the
\* lines of the active file, in the order of the writes.
C7_BelowThresholdKeepsOneFile ==
  [][(splitType = SplitType_Size /\ ActiveSize < fileSize) =>
        /\ rotations' = rotations
        /\ (Constructed' /\ rotations' = 0 =>
              /\ dir'[logFilePath] # Nil
              /\ NewLines(files'[dir'[logFilePath]]) = written')]_vars

C7_Witness ==
  /\ splitType = SplitType_Size /\ fileCount > 1 /\ pc = "skip"
  /\ rotations = 0 /\ ActiveSize < fileSize /\ Len(written) = 1

\* ---- C8 -------------------------------------------------------------------
\* C8: in Size mode the decision taken by a monitor check and by the
\* constructor is to rotate iff fileCount > 1 and the active file's size is
\* at least fileSize, a missing file counting as size zero; the evaluation
\* itself changes neither the writer's fields nor the files.
C8_SizeDecision ==
  [][splitType = SplitType_Size =>
        /\ (pc = "idle" /\ pc' # "idle" =>
              /\ (pc' = "due" <=> (fileCount > 1 /\ ActiveSize >= fileSize))
              /\ UNCHANGED <<Fields, OS, mu, rotations>>)
        /\ (pc = "body" /\ pc' # "body" =>
              (rotations' = rotations + 1
                 <=> (fileCount > 1 /\ ActiveSize >= fileSize)))]_vars

\* a check decided to rotate a file whose size equals the threshold exactly
C8_Witness ==
  /\ splitType = SplitType_Size /\ pc = "due" /\ ActiveSize = fileSize
  /\ written # <<>>

C10_AtMostOneOpenHandle == Cardinality(OpenHandles) <= 1

\* ---- C11 ------------------------------------------------------------------
\* C11: in Daily mode no rotation, at construction or by the monitor, rebinds
\* or changes the content of a dated backup that exists, and a rotation is
\* made only when no backup exists yet for the day it archives.
C11_DatedBackupsNeverReplaced ==
  [][(splitType = SplitType_Daily /\ pc \in {"body", "split"} /\ pc' # pc) =>
        /\ \A d \in Days :
             dir[BakByDate(d)] # Nil =>
               /\ dir'[BakByDate(d)] = dir[BakByDate(d)]
               /\ files'[dir[BakByDate(d)]] = files[dir[BakByDate(d)]]
        /\ (rotations' = rotations + 1 => dir[BakByDate(date)] = Nil)]_vars

\* the monitor found a backup already there for the day it was to archive,
\* and left it alone
C11_Witness ==
  /\ splitType = SplitType_Daily /\ pc = "unlock" /\ rotations = 0
  /\ today > date /\ dir[BakByDate(date)] = InitIno(BakByDate(date))
  /\ files[dir[BakByDate(date)]] = PreLine

\* ---- C12 ------------------------------------------------------------------
\* C12: whenever the write lock is free on a constructed writer, the
\* line-writer is bound to the handle opened last, that handle is open and it
\* designates the active file.
C12_WriterBoundToOpenActiveHandle ==
  (Constructed /\ mu = "free") =>
    /\ lg # Nil
    /\ lg = Len(handles)
    /\ handles[lg].open
    /\ handles[lg].ino = dir[logFilePath]

\* two Daily rotations were made, the second closed the handle of the first
C12_Witness ==
  /\ splitType = SplitType_Daily /\ pc = "idle" /\ mu = "free" /\ rotations = 2
  /\ \E h \in 1..Len(handles) : ~handles[h].open

\* ---- C13 ------------------------------------------------------------------
\* C13: a decision to rotate that the monitor has taken and not yet carried
\* out is held under the write lock (decision and rotation are one critical
\* section).
C13_DecisionUnderLock == (pc = "due") => mu = "W"

\* ---- C14 ------------------------------------------------------------------
\* C14: every step that assigns the backup index, the period start or the
\* active handle is taken with the write lock held.
C14_FieldsAssignedUnderLock ==
  [][(suffix' # suffix \/ date' # date \/ logFile' # logFile \/ logfile' # logfile)
       => mu = "W"]_vars

RenameFailedStep ==
  /\ splitType = SplitType_Daily /\ pc = "split" /\ pc' = "unlock"
  /\ rotations' = rotations + 1
  /\ dir'[BakByDate(date)] = Nil

\* C16: when the rename of a Daily rotation fails, the handle of the old
\* line-writer is still open when the message is logged through it, and the
\* message is in a file afterwards.
C16_RenameFailureIsLogged ==
  [][RenameFailedStep =>
        /\ handles'[lg].open
        /\ \E i \in 1..Len(files') : Occurrences(files'[i], RenameErrLine) >= 1]_vars

\* ---- C17 ------------------------------------------------------------------
\* C17: when the rename of a Daily rotation fails, afterwards the line-writer
\* is bound to an open handle on the active file and the lines the active
\* file held are still its first lines.
C17_RenameFailureKeepsActiveFile ==
  [][RenameFailedStep =>
        /\ handles'[lg'].open
        /\ handles'[lg'].ino = dir'[logFilePath]
        /\ Len(files'[dir'[logFilePath]]) >= Len(ActiveContent)
        /\ \A j \in 1..Len(ActiveContent) :
             files'[dir'[logFilePath]][j] = ActiveContent[j]]_vars

\* ---- C18 ------------------------------------------------------------------
\* C18: in Size mode the backup index is in 0..fileCount, in 1..fileCount
\* once a rotation was made, and every backup the writer produced has an
\* index in 1..fileCount, so there are at most fileCount of them.
C18_BackupIndexInRange ==
  splitType = SplitType_Size =>
    /\ suffix \in 0..fileCount
    /\ (rotations >= 1 => suffix \in 1..fileCount)
    /\ ProducedBackups \subseteq {BakBySize(i) : i \in 1..fileCount}
    /\ Cardinality(ProducedBackups) <= fileCount

\* with fileCount = 2 a third rotation wrapped: both indices hold a backup
\* the writer produced
C18_Witness ==
  /\ splitType = SplitType_Size /\ fileCount = 2 /\ rotations = 3 /\ suffix = 1
  /\ Cardinality(ProducedBackups) = 2

\* ---- C19 ------------------------------------------------------------------
\* C19: the write lock is free once the constructor has returned or
\* panicked, and whenever fileCheck has returned or is in its deferred
\* recovery, rotation or not, fault or not.
C19_LockFreeAfterReturn ==
  (pc \in {"idle", "skip", "recover", "crashed", "dead"}) => mu = "free"

\* after a rotation, a check in which a fault was raised has returned: its
\* message is in the active file and the lock is free
C19_Witness ==
  /\ pc = "idle" /\ mu = "free" /\ rotations >= 1 /\ faults >= 1
  /\ Occurrences(ActiveContent, PanicLine) = 1

\* ---- C20 ------------------------------------------------------------------
\* C20: in Daily mode, once set, the period start never decreases, is never
\* later than the current day, and changes only in a rotation, which sets it
\* to the current day.
C20_PeriodStartMonotone ==
  [][(splitType = SplitType_Daily /\ date # NoDate) =>
        /\ date' >= date
        /\ date' <= today'
        /\ (date' # date => rotations' = rotations + 1 /\ date' = today)]_vars

C20_Witness ==
  /\ splitType = SplitType_Daily /\ rotations = 2 /\ date = 2 /\ today = 2

====
